---- MODULE Spec2Model ----
(***************************************************************************)
(* Model of transition.py, the "Transition Character to Character" add-on: *)
(* the operator TransitionCharToChar (execute, the seven variant           *)
(* generators, _trans/_ltrans/_ctrans, the set_new_obj_properties          *)
(* wrapper) and the add-on's register()/unregister() hooks.                *)
(*                                                                         *)
(* Representation.  A character is its code point (ord), a string is a     *)
(* sequence of code points.  Float properties are carried in fixed point:  *)
(* distance and gap_unit in tenths, transize and circsize in hundredths.   *)
(* An angle is kept symbolically as <<multiplier, min_char>>.              *)
(***************************************************************************)
EXTENDS Integers, Sequences, FiniteSets, TLC

\* ------------------------------------------------------------------ bounds
\* number of letters of ascii_lowercase kept in the model ('a', 'b', ...)
NLetters == 3
\* longest Text the specifications draw
MaxLen == 3
\* menu entries after which register() is no longer explored
MaxMenu == 2

\* ------------------------------------------------------- string literals
StrStart    == <<95, 115, 116, 97, 114, 116>>            \* '_start'
StrTrans    == <<95, 116, 114, 97, 110, 115>>            \* '_trans'
StrCircle   == <<95, 99, 105, 114, 99, 108, 101>>        \* '_circle'
StrArrow    == <<45, 62>>                                \* '->'
StrZero     == <<40, 48, 41>>                            \* '(0)'
StrUnder    == <<95>>                                    \* '_'
StrLinear   == <<95, 108, 105, 110, 101, 97, 114, 95, 116, 114, 97, 110, 115, 105, 116, 105, 111, 110>>
StrCircular == <<95, 99, 105, 114, 99, 117, 108, 97, 114, 95, 116, 114, 97, 110, 115, 105, 116, 105, 111, 110>>
FontScene   == <<95, 95, 102, 111, 110, 116, 95, 95>>    \* '__font__'
StartupScene == <<83, 99, 101, 110, 101>>                \* 'Scene'

\* ------------------------------------------------------------ characters
OrdUpperA == 65
OrdUpperZ == 90
OrdLowerA == 97
OrdLowerZ == 122
CaseGap   == OrdLowerA - OrdUpperA

\* string.ascii_lowercase, cut to the first NLetters letters
ascii_lowercase == [i \in 1..NLetters |-> OrdLowerA + i - 1]
Letters == {ascii_lowercase[i] : i \in 1..NLetters}

\* str.islower() / str.lower() / str.upper() on one character
IsLower(c) == c \in OrdLowerA..OrdLowerZ
IsUpper(c) == c \in OrdUpperA..OrdUpperZ
\* (str.lower() also folds the Latin-1 capitals 192..222, except 215)
LowerChar(c) ==
    IF IsUpper(c) \/ (c \in 192..222 /\ c # 215) THEN c + CaseGap ELSE c
UpperChar(c) == IF IsLower(c) THEN c - CaseGap ELSE c
Lower(s) == [i \in 1..Len(s) |-> LowerChar(s[i])]

\* characters str.split() treats as white space
IsSpace(c) == c \in {9, 10, 11, 12, 13, 28, 29, 30, 31, 32, 133, 160}
\* str.encode('ascii') succeeds
IsAscii(s) == \A i \in 1..Len(s) : s[i] < 128

\* toascii(string)
toascii(string) ==
    LET NotSpace(c) == ~IsSpace(c)
        AToz(c)     == ~IsSpace(c) /\ OrdUpperA <= c /\ c <= OrdLowerZ
    IN  IF IsAscii(string) THEN SelectSeq(string, NotSpace)
        ELSE SelectSeq(string, AToz)

RECURSIVE Reverse(_)
Reverse(s) == IF s = <<>> THEN <<>> ELSE Reverse(Tail(s)) \o <<Head(s)>>

\* all sequences over S of length 0..n
SeqsUpTo(S, n) == UNION {[1..k -> S] : k \in 0..n}

\* ------------------------------------------------- host objects (bpy.data)
\* fixed-point 1.0 of a scale, and the scale/location of the font templates
UnitScale == 100
Origin == <<0, 0, 0>>
NoRot == [index |-> 0, of |-> 1, angle |-> <<"none", 0>>]

\* bpy.data.objects['<c>_start'], ['<c>_trans'], ['_circle'] (execute, objects)
Template(name) == [name |-> name, scale |-> UnitScale, location |-> Origin]
ObjStart(c) == Template(<<c>> \o StrStart)
ObjTrans(c) == Template(<<c>> \o StrTrans)
ObjCircle   == Template(StrCircle)

\* _dupobj(scene, name, copyobj): new object with a copy of copyobj's mesh,
\* its scale and location, linked to scene and selected
_dupobj(scene, name, copyobj) ==
    [name |-> name, data |-> copyobj.name, scale |-> copyobj.scale,
     location |-> copyobj.location, rot |-> NoRot, select |-> TRUE,
     scene |-> scene]

SetScale(obj, s) == [obj EXCEPT !.scale = s]
SetLoc(obj, l)   == [obj EXCEPT !.location = l]

\* _rotobj(scene, objects, location, radius, angle, axis): every object is
\* moved to location, object i is rotated by i*angle/len(objects) around the
\* 3D cursor, and all end selected
_rotobj(objs, location, angle) ==
    [i \in 1..Len(objs) |->
        [objs[i] EXCEPT !.location = location,
                        !.rot = [index |-> i - 1, of |-> Len(objs), angle |-> angle],
                        !.select = TRUE]]
\* scene.cursor_location set by _rotobj
RotCursor(location, radius) == <<location[1] + radius, location[2], location[3]>>

\* ------------------------------------------------------ variant generators
\* Each generator yields the group of duplicated objects (in the order it
\* hands them to _rotobj), the index of the object it makes active, and the
\* 3D cursor it leaves (<<>> when it does not touch the cursor).
Name2(a, b)             == <<UpperChar(a)>> \o StrArrow \o <<UpperChar(b)>>
NameSuffix(obj)         == obj.name \o StrUnder
Placed(objs, ys, x, z)  == [i \in 1..Len(objs) |-> SetLoc(objs[i], <<x, ys[i], z>>)]
Arrange(p, objs, ys, x, z, mult, active) ==
    IF p.circular
    THEN [err    |-> "none",
          objs   |-> _rotobj(objs, <<x, 0, z>>, <<mult, p.min_char>>),
          active |-> active,
          cursor |-> RotCursor(<<x, 0, z>>, p.distance)]
    ELSE [err |-> "none", objs |-> Placed(objs, ys, x, z), active |-> active,
          cursor |-> <<>>]

\* _cc: Character to Character
_cc(p, char1, char2, x, z, scene) ==
    LET d == p.distance
        nobj1 == _dupobj(scene, Name2(char1, char2), ObjStart(char1))
        nobj2 == _dupobj(scene, NameSuffix(ObjStart(char2)), ObjStart(char2))
    IN  Arrange(p, <<nobj1, nobj2>>, <<0, d>>, x, z, "2", 1)

\* _coc: Character to Circle to Character
_coc(p, char1, char2, x, z, scene) ==
    LET d == p.distance
        nobj1  == _dupobj(scene, NameSuffix(ObjStart(char1)), ObjStart(char1))
        circle == SetScale(_dupobj(scene,
                      <<UpperChar(char1)>> \o StrArrow \o StrZero \o StrArrow
                          \o <<UpperChar(char2)>>, ObjCircle), p.circsize)
        nobj2  == _dupobj(scene, NameSuffix(ObjStart(char2)), ObjStart(char2))
    IN  Arrange(p, <<nobj1, circle, nobj2>>, <<0, d, d * 2>>, x, z, "1.5", 2)

\* _ctc: Character to Transition to Character (reverse: char2's transition)
_ctc(p, char1, char2, x, z, scene, reverse) ==
    LET d == p.distance
        tchar == IF reverse THEN char2 ELSE char1
        nobj1 == _dupobj(scene, NameSuffix(ObjStart(char1)), ObjStart(char1))
        nobj2 == SetScale(_dupobj(scene,
                      <<UpperChar(char1)>> \o StrArrow \o <<tchar>> \o StrArrow
                          \o <<UpperChar(char2)>>, ObjTrans(tchar)), p.transize)
        nobj3 == _dupobj(scene, NameSuffix(ObjStart(char2)), ObjStart(char2))
    IN  Arrange(p, <<nobj1, nobj2, nobj3>>, <<0, d, d * 2>>, x, z, "1.5", 2)

\* _ctoc: Character to Transition to Circle to Character, or (reverse)
\* Character to Circle to Transition to Character
_ctoc(p, char1, char2, x, z, scene, reverse) ==
    LET d == p.distance
        nobj1 == _dupobj(scene, NameSuffix(ObjStart(char1)), ObjStart(char1))
        nobj3 == _dupobj(scene, NameSuffix(ObjStart(char2)), ObjStart(char2))
        trans == IF reverse THEN ObjTrans(char2) ELSE ObjTrans(char1)
        cname == IF reverse
                 THEN <<UpperChar(char1)>> \o StrArrow \o StrZero \o StrArrow
                          \o <<char2>> \o StrArrow \o <<UpperChar(char2)>>
                 ELSE <<UpperChar(char1)>> \o StrArrow \o <<char1>> \o StrArrow
                          \o StrZero \o StrArrow \o <<UpperChar(char2)>>
        circle == SetScale(_dupobj(scene, cname, ObjCircle), p.circsize)
        nobj2  == SetScale(_dupobj(scene, NameSuffix(trans), trans), p.transize)
    IN  IF reverse
        THEN Arrange(p, <<nobj1, circle, nobj2, nobj3>>, <<0, d, d * 2, d * 3>>,
                     x, z, "1.3333333333", 2)
        ELSE Arrange(p, <<nobj1, nobj2, circle, nobj3>>, <<0, d, d * 2, d * 3>>,
                     x, z, "1.3333333333", 3)

\* _ctotc: Character to Transition to Circle to Transition to Character
_ctotc(p, char1, char2, x, z, scene) ==
    LET d == p.distance
        nobj1  == _dupobj(scene, NameSuffix(ObjStart(char1)), ObjStart(char1))
        nobj2  == SetScale(_dupobj(scene, NameSuffix(ObjTrans(char1)),
                                   ObjTrans(char1)), p.transize)
        circle == SetScale(_dupobj(scene,
                      <<UpperChar(char1)>> \o StrArrow \o <<char1>> \o StrArrow
                          \o StrZero \o StrArrow \o <<char2>> \o StrArrow
                          \o <<UpperChar(char2)>>, ObjCircle), p.circsize)
        nobj3  == SetScale(_dupobj(scene, NameSuffix(ObjTrans(char2)),
                                   ObjTrans(char2)), p.transize)
        nobj4  == _dupobj(scene, NameSuffix(ObjStart(char2)), ObjStart(char2))
    IN  Arrange(p, <<nobj1, nobj2, circle, nobj3, nobj4>>,
                <<0, d, d * 2, d * 3, d * 4>>, x, z, "1.25", 3)

\* (mutant: the last generator left out of the tuple)
functionsShort == <<"_cc", "_coc", "_ct1c", "_ct2c", "_ct1oc", "_ct2oc">>

\* the interfaces _ct1c/_ct2c and _ct1oc/_ct2oc, and execute's tuple
\* functions = (_cc, _coc, _ct1c, _ct2c, _ct1oc, _ct2oc, _ctotc)
functions == <<"_cc", "_coc", "_ct1c", "_ct2c", "_ct1oc", "_ct2oc", "_ctotc">>
CallFunction(fn, p, char1, char2, x, z, scene) ==
    CASE fn = "_cc"    -> _cc(p, char1, char2, x, z, scene)
      [] fn = "_coc"   -> _coc(p, char1, char2, x, z, scene)
      [] fn = "_ct1c"  -> _ctc(p, char1, char2, x, z, scene, FALSE)
      [] fn = "_ct2c"  -> _ctc(p, char1, char2, x, z, scene, TRUE)
      [] fn = "_ct1oc" -> _ctoc(p, char1, char2, x, z, scene, FALSE)
      [] fn = "_ct2oc" -> _ctoc(p, char1, char2, x, z, scene, TRUE)
      [] fn = "_ctotc" -> _ctotc(p, char1, char2, x, z, scene)

\* -------------------------------------------- set_new_obj_properties wrapper
\* What a decorated function hands to its wrapper: err ("none" or the
\* exception it raised), the objects it duplicated, the index of the active
\* one, the 3D cursor it set (<<>>: untouched).
Raised(err, objs) == [err |-> err, objs |-> objs, active |-> 0, cursor |-> <<>>]

\* bpy.ops.object.subdivision_set(level=...): the modifier stack it leaves on
\* the joined object.  A positive level adds 'Subsurf'; whether level 0 adds
\* it is the host's choice (addsAtZero).
subdivision_set(level, addsAtZero) ==
    IF level > 0 \/ addsAtZero THEN {"Subsurf"} ELSE {}

\* sub_wrapper(self, *args): r is the outcome of the decorated function
sub_wrapper(p, addsAtZero, loop_type, r) ==
    IF r.err # "none"
    THEN [err |-> r.err, made |-> <<>>, loose |-> r.objs, mode |-> "OBJECT"]
    ELSE
      LET joined == [name      |-> r.objs[r.active].name,
                     scene     |-> r.objs[r.active].scene,
                     parts     |-> r.objs,
                     bridge    |-> loop_type,
                     modifiers |-> subdivision_set(p.subdsurf, addsAtZero),
                     levels    |-> p.subdsurf,
                     show_only_control_edges |-> FALSE,
                     origin    |-> <<>>,
                     smooth    |-> FALSE,
                     select    |-> TRUE]
      IN  IF "Subsurf" \notin joined.modifiers
          THEN \* modifiers['Subsurf'] raises KeyError, still in edit mode
               [err |-> "KeyError", made |-> <<joined>>, loose |-> <<>>,
                mode |-> "EDIT"]
          ELSE [err |-> "none",
                made |-> <<[joined EXCEPT
                              !.show_only_control_edges = TRUE,
                              !.origin = IF p.circular THEN r.cursor ELSE <<>>,
                              !.smooth = TRUE,
                              !.select = FALSE]>>,
                loose |-> <<>>, mode |-> "OBJECT"]

\* ------------------------------------------------------------------ _trans
\* kerning.json: a function from the listed ordered pairs <<a, b>> to their
\* step sequences.  A step is a character (code point) or, for a JSON
\* number, 0.
\* (mutant: no fallback to the other order)
KerningStepsDirect(kerning, char1, char2) ==
    IF <<char1, char2>> \in DOMAIN kerning
    THEN [err |-> "none", steps |-> kerning[<<char1, char2>>]]
    ELSE [err |-> "KeyError", steps |-> <<>>]

\* try: kerning[char1][char2]  except KeyError: kerning[char2][char1][::-1]
KerningSteps(kerning, char1, char2) ==
    IF <<char1, char2>> \in DOMAIN kerning
    THEN [err |-> "none", steps |-> kerning[<<char1, char2>>]]
    ELSE IF <<char2, char1>> \in DOMAIN kerning
         THEN [err |-> "none", steps |-> Reverse(kerning[<<char2, char1>>])]
         ELSE [err |-> "KeyError", steps |-> <<>>]

\* (mutant: every pair keeps its first step)
StepSliceWhole(i, steps) == steps

\* steps[bool(i):]
StepSlice(i, steps) == IF i # 0 THEN SubSeq(steps, 2, Len(steps)) ELSE steps

\* a step whose template lookup objects[...] succeeds
StepFound(char) ==
    \/ char = 0
    \/ IsLower(char) /\ char \in Letters
    \/ ~IsLower(char) /\ LowerChar(char) \in Letters

\* body of the inner loop: the duplicate made for one step
StepObj(p, basetext, scene, char) ==
    IF char = 0
    THEN SetScale(_dupobj(scene, basetext \o ObjCircle.name, ObjCircle), p.circsize)
    ELSE IF IsLower(char)
         THEN SetScale(_dupobj(scene, basetext \o ObjTrans(char).name,
                               ObjTrans(char)), p.transize)
         ELSE _dupobj(scene, basetext \o ObjStart(LowerChar(char)).name,
                      ObjStart(LowerChar(char)))

\* number of leading steps whose template exists
RECURSIVE FoundPrefix(_)
FoundPrefix(steps) ==
    IF steps = <<>> \/ ~StepFound(Head(steps)) THEN 0
    ELSE 1 + FoundPrefix(Tail(steps))

\* _trans from pair number i (0-based) on, acc the duplicates made so far;
\* the result's err is the exception raised, if any ('return nobj' with
\* nobj never assigned raises UnboundLocalError)
RECURSIVE TransLoop(_, _, _, _, _, _)
TransLoop(p, basetext, kerning, scene, i, acc) ==
    IF i + 2 > Len(basetext)
    THEN [err |-> IF acc = <<>> THEN "UnboundLocalError" ELSE "none", objs |-> acc]
    ELSE
      LET look  == KerningSteps(kerning, basetext[i + 1], basetext[i + 2])
          steps == StepSlice(i, look.steps)
          n     == FoundPrefix(steps)
          new   == [k \in 1..n |-> StepObj(p, basetext, scene, steps[k])]
      IN  IF look.err # "none" THEN [err |-> look.err, objs |-> acc]
          ELSE IF n < Len(steps) THEN [err |-> "KeyError", objs |-> acc \o new]
          ELSE TransLoop(p, basetext, kerning, scene, i + 1, acc \o new)

_trans(p, basetext, kerning, scene) ==
    TransLoop(p, basetext, kerning, scene, 0, <<>>)

Rename(objs, i, name) == [objs EXCEPT ![i].name = name]

\* _ltrans, before its wrapper: loc() puts the k-th duplicate at y = (k-1)*d
_ltrans(p, basetext, kerning, scene) ==
    LET t    == _trans(p, basetext, kerning, scene)
        objs == [k \in 1..Len(t.objs) |->
                    SetLoc(t.objs[k], <<0, (k - 1) * p.distance, 0>>)]
    IN  IF t.err # "none" THEN Raised(t.err, objs)
        ELSE [err |-> "none",
              objs |-> Rename(objs, Len(objs), basetext \o StrLinear),
              active |-> Len(objs), cursor |-> <<>>]

\* _ctrans, before its wrapper: the text is closed with its first character,
\* the chain is spread over a full circle
_ctrans(p, basetext0, kerning, scene) ==
    LET d        == p.distance
        basetext == basetext0 \o <<basetext0[1]>>
        t        == _trans(p, basetext, kerning, scene)
        group    == _rotobj(t.objs, <<-d, 0, 0>>, <<"2*pi", 1>>)
    IN  IF t.err # "none" THEN Raised(t.err, t.objs)
        ELSE [err |-> "none",
              objs |-> Rename(group, Len(group), basetext \o StrCircular),
              active |-> Len(group),
              cursor |-> RotCursor(<<-d, 0, 0>>, d)]

\* ------------------------------------------------- execute: test generation
\* tuple(combinations(ascii_lowercase, 2)), from the pair (i, j) on
RECURSIVE CombinationsFrom(_, _)
CombinationsFrom(i, j) ==
    IF i >= NLetters THEN <<>>
    ELSE IF j > NLetters THEN CombinationsFrom(i + 1, i + 2)
    ELSE <<<<ascii_lowercase[i], ascii_lowercase[j]>>>> \o CombinationsFrom(i, j + 1)
variations == CombinationsFrom(1, 2)

\* the locals of execute's test branch before the loop: row, col, char
\* (0 for None), status, and scene, which is not bound yet
GenStart(scenes, ctx) ==
    [row |-> 0, col |-> 0, char |-> 0, status |-> 1,
     scene |-> [bound |-> FALSE, name |-> <<>>],
     scenes |-> scenes, ctx |-> ctx, calls |-> <<>>, err |-> "none",
     mode |-> "OBJECT"]

\* (mutant: the row wraps one variant late, '>' for '>=')
NextCellLate(p, st) ==
    IF st.col + p.gap_unit > p.vars_col * p.gap_unit
    THEN [st EXCEPT !.row = st.row + p.gap_unit, !.col = 0]
    ELSE [st EXCEPT !.col = st.col + p.gap_unit]

\* 'col += space; if col >= vars_col: row += space; col = 0', where
\* vars_col is self.vars_col * space
NextCell(p, st) ==
    LET space    == p.gap_unit
        vars_col == p.vars_col * space
        col      == st.col + space
    IN  IF col >= vars_col
        THEN [st EXCEPT !.row = st.row + space, !.col = 0]
        ELSE [st EXCEPT !.col = col]

\* after the call of fn at (st.col, st.row) ended as r: an exception ends the
\* loop, otherwise the column advances and status is printed and counted
AfterCall(p, st, fn, char1, char2, r) ==
    LET st1 == [st EXCEPT !.calls = Append(@, [fn |-> fn, char1 |-> char1,
                                               char2 |-> char2, x |-> st.col,
                                               z |-> st.row,
                                               scene |-> st.scene.name,
                                               err |-> r.err, made |-> r.made]),
                          !.mode = r.mode]
    IN  IF r.err # "none" THEN [st1 EXCEPT !.err = r.err]
        ELSE [NextCell(p, st1) EXCEPT !.status = st.status + 1]

\* 'for fn in functions:' from the functions fns on, for the pair char1, char2
RECURSIVE FnLoop(_, _, _, _, _, _)
FnLoop(p, addsAtZero, st, char1, char2, fns) ==
    IF fns = <<>> \/ st.err # "none" THEN st
    ELSE IF ~st.scene.bound
    THEN \* the argument 'scene' is read before it was ever assigned
         [st EXCEPT !.err = "UnboundLocalError"]
    ELSE FnLoop(p, addsAtZero,
                AfterCall(p, st, Head(fns), char1, char2,
                    sub_wrapper(p, addsAtZero, "SINGLE",
                        CallFunction(Head(fns), p, char1, char2, st.col, st.row,
                                     st.scene.name))),
                char1, char2, Tail(fns))

\* 'if char != char1:' a scene named char1 is created, and row and col reset,
\* only when no scene of that name exists
EnterScene(st, char1) ==
    IF st.char = char1 \/ <<char1>> \in st.scenes THEN st
    ELSE [st EXCEPT !.scenes = @ \cup {<<char1>>},
                    !.ctx = <<char1>>,
                    !.scene = [bound |-> TRUE, name |-> <<char1>>],
                    !.char = char1, !.row = 0, !.col = 0]

\* 'for char1, char2 in reversed(variations):' from the pairs given on
RECURSIVE PairLoop(_, _, _, _)
PairLoop(p, addsAtZero, st, pairs) ==
    IF pairs = <<>> \/ st.err # "none" THEN st
    ELSE PairLoop(p, addsAtZero,
                  FnLoop(p, addsAtZero, EnterScene(st, Head(pairs)[1]),
                         Head(pairs)[1], Head(pairs)[2], functions),
                  Tail(pairs))

\* ------------------------------------------------------------------ execute
Result(err) == IF err = "none" THEN "FINISHED" ELSE err

\* how execute ends when the text branch's generator call ended as r
TextOutcome(basetext, scenes1, r) ==
    [result |-> Result(r.err), basetext |-> basetext,
     scenes |-> scenes1 \cup {basetext}, ctx |-> basetext,
     mode |-> r.mode, calls |-> <<>>, made |-> r.made,
     loose |-> r.loose, use_matcap |-> r.err = "none"]

\* how execute ends when the test loop ended in st
GenOutcome(basetext, st) ==
    [result |-> Result(st.err), basetext |-> basetext,
     scenes |-> st.scenes, ctx |-> st.ctx, mode |-> st.mode,
     calls |-> st.calls, made |-> <<>>, loose |-> <<>>,
     use_matcap |-> st.err = "none"]

\* how execute ends when it generated nothing: err is "none", or the
\* exception raised before any object was made
IdleOutcome(basetext, scenes1, ctx1, err) ==
    [result |-> Result(err), basetext |-> basetext,
     scenes |-> scenes1, ctx |-> ctx1, mode |-> "OBJECT",
     calls |-> <<>>, made |-> <<>>, loose |-> <<>>,
     use_matcap |-> err = "none"]

\* execute once '__font__' is there and basetext is known
ExecuteBranch(scenes1, ctx1, addsAtZero, kerning, p, basetext) ==
    IF basetext # <<>>
    THEN IF basetext \in scenes1
         THEN \* 'scene' was never assigned when the call reads it
              IdleOutcome(basetext, scenes1, ctx1, "UnboundLocalError")
         ELSE IF p.circular
         THEN TextOutcome(basetext, scenes1,
                  sub_wrapper(p, addsAtZero, "CLOSED",
                              _ctrans(p, basetext, kerning, basetext)))
         ELSE TextOutcome(basetext, scenes1,
                  sub_wrapper(p, addsAtZero, "SINGLE",
                              _ltrans(p, basetext, kerning, basetext)))
    ELSE IF p.update_g
    THEN GenOutcome(basetext,
             PairLoop(p, addsAtZero, GenStart(scenes1, ctx1), Reverse(variations)))
    ELSE IdleOutcome(basetext, scenes1, ctx1, "none")

\* execute(self, context) on the scenes `scenes` with context scene `ctx`:
\* what the run leaves behind and how it ends
ExecuteOutcome(scenes, ctx, addsAtZero, kerning, p) ==
    IF FontScene \in scenes
    THEN ExecuteBranch(scenes, ctx, addsAtZero, kerning, p,
                       toascii(Lower(p.basetext)))
    ELSE ExecuteBranch((scenes \ {ctx}) \cup {FontScene}, FontScene, addsAtZero,
                       kerning, p, toascii(Lower(p.basetext)))

\* ---------------------------------------------------------------- the state
VARIABLES
    registered,   \* bpy.utils: TransitionCharToChar is a registered class
    menu,         \* number of menu_func entries in INFO_MT_mesh_add
    scenes,       \* names of bpy.data.scenes
    ctx,          \* name of bpy.context.scene
    mode,         \* "OBJECT" or "EDIT"
    addsAtZero,   \* the host's subdivision_set adds 'Subsurf' at level 0
    kerning,      \* content of kerning.json beside the .blend file
    props,        \* the operator's properties (self.basetext, ...)
    last          \* the last run of execute: what it did and returned

vars == <<registered, menu, scenes, ctx, mode, addsAtZero, kerning, props, last>>

\* defaults of the bpy.props declarations (fixed point, see the header)
DefaultDistance == 20
DefaultTransize == 100
DefaultCircsize == 100
DefaultSubdsurf == 3
DefaultVarsCol  == 15
DefaultGapUnit  == 30
DefaultMinChar  == 4
MaxVarsCol      == 26

Defaults ==
    [basetext |-> <<>>, distance |-> DefaultDistance, circular |-> TRUE,
     transize |-> DefaultTransize, circsize |-> DefaultCircsize,
     subdsurf |-> DefaultSubdsurf, update_g |-> FALSE,
     vars_col |-> DefaultVarsCol, gap_unit |-> DefaultGapUnit,
     min_char |-> DefaultMinChar]

\* ----------------------------------------------------- kerning tables drawn
\* The sequence a table lists for the ordered pair <<x, y>>, in four shapes
KerningSeq(style, x, y) ==
    CASE style = "cc"    -> <<UpperChar(x), UpperChar(y)>>
      [] style = "coc"   -> <<UpperChar(x), 0, UpperChar(y)>>
      [] style = "ctc"   -> <<UpperChar(x), x, UpperChar(y)>>
      [] style = "ctotc" -> <<UpperChar(x), x, 0, y, UpperChar(y)>>
KerningStyles == {"cc", "coc", "ctc", "ctotc"}
KerningOrders == {"forward", "backward", "mixed", "both"}

\* the ordered pairs a table lists: every unordered pair of distinct letters
\* in one order ("both": in both orders), and with eq the pairs <<a, a>>
KerningPairs(order, eq) ==
    {pr \in Letters \X Letters :
        \/ pr[1] = pr[2] /\ eq
        \/ pr[1] < pr[2] /\ order \in {"forward", "both"}
        \/ pr[1] > pr[2] /\ order \in {"backward", "both"}
        \/ pr[1] < pr[2] /\ order = "mixed" /\ (pr[1] + pr[2]) % 2 = 0
        \/ pr[1] > pr[2] /\ order = "mixed" /\ (pr[1] + pr[2]) % 2 = 1}
KerningTable(order, style, eq) ==
    [pr \in KerningPairs(order, eq) |->
        IF order = "both" /\ pr[1] > pr[2] THEN KerningSeq("cc", pr[1], pr[2])
        ELSE KerningSeq(style, pr[1], pr[2])]
KerningTables ==
    {KerningTable(o, s, e) : o \in KerningOrders, s \in KerningStyles, e \in BOOLEAN}

\* ------------------------------------------------------------ inputs drawn
\* Text typed in the full lifecycle: a space, 'B' and a non-ASCII letter
TypedChars == {32, 66, 233}
TypedLen   == 2
LifecycleProps ==
    {[Defaults EXCEPT !.basetext = t, !.circular = c, !.update_g = u, !.subdsurf = s] :
        t \in SeqsUpTo(TypedChars, TypedLen), c \in BOOLEAN, u \in BOOLEAN,
        s \in {0, DefaultSubdsurf}}

\* Text mode: every non-empty text of letters, both paths, scaled pieces
TextProps ==
    {[Defaults EXCEPT !.basetext = t, !.circular = c, !.transize = 50, !.circsize = 25] :
        t \in SeqsUpTo(Letters, MaxLen) \ {<<>>}, c \in BOOLEAN}

\* Test mode: no text (empty or blank), every switch, a range of grids
GenProps ==
    {[Defaults EXCEPT !.basetext = t, !.circular = c, !.update_g = u,
                      !.subdsurf = s, !.vars_col = v, !.gap_unit = g] :
        t \in {<<>>, <<32>>}, c \in BOOLEAN, u \in BOOLEAN, s \in {0, DefaultSubdsurf},
        v \in {0, 1, 2, 3, 8, DefaultVarsCol, MaxVarsCol},
        g \in {1, DefaultGapUnit, 200}}

NoRun ==
    [ran |-> FALSE, p |-> Defaults, before |-> {}, result |-> "none",
     basetext |-> <<>>, calls |-> <<>>, made |-> <<>>, loose |-> <<>>,
     use_matcap |-> FALSE]

\* ------------------------------------------------------------------ actions
\* register(): register_class, then INFO_MT_mesh_add.append(menu_func)
Register ==
    /\ ~registered
    /\ menu < MaxMenu
    /\ registered' = TRUE
    /\ menu' = menu + 1
    /\ UNCHANGED <<scenes, ctx, mode, addsAtZero, kerning, props, last>>

\* unregister(): unregister_class, and nothing else
Unregister ==
    /\ registered
    /\ registered' = FALSE
    /\ UNCHANGED <<menu, scenes, ctx, mode, addsAtZero, kerning, props, last>>

\* the state a run of execute with the properties p leaves, out its outcome
Commit(p, out) ==
    /\ props' = p
    /\ scenes' = out.scenes
    /\ ctx' = out.ctx
    /\ mode' = out.mode
    /\ last' = [ran |-> TRUE, p |-> p, before |-> scenes,
                result |-> out.result, basetext |-> out.basetext,
                calls |-> out.calls, made |-> out.made,
                loose |-> out.loose, use_matcap |-> out.use_matcap]
    /\ UNCHANGED <<registered, menu, addsAtZero, kerning>>

\* the host runs execute with the properties p
Run(p) ==
    /\ registered
    /\ Commit(p, ExecuteOutcome(scenes, ctx, addsAtZero, kerning, p))

\* the user picks property values and invokes the operator
Execute == \E p \in LifecycleProps : Run(p)

\* one invocation with the properties as they stand
ExecuteOnce == ~last.ran /\ Run(props)

\* ----------------------------------------------------------- specifications
\* The add-on's lifecycle in a fresh file: one scene 'Scene', a complete
\* kerning table, the add-on not loaded yet
Init ==
    /\ registered = FALSE
    /\ menu = 0
    /\ scenes = {StartupScene}
    /\ ctx = StartupScene
    /\ mode = "OBJECT"
    /\ addsAtZero \in BOOLEAN
    /\ kerning = KerningTable("forward", "ctotc", TRUE)
    /\ props = Defaults
    /\ last = NoRun

Next == Register \/ Unregister \/ Execute

Spec == Init /\ [][Next]_vars

\* Text mode as a function of its inputs: any text, any kerning table
InitText ==
    /\ registered = TRUE
    /\ menu = 1
    /\ scenes = {FontScene}
    /\ ctx = FontScene
    /\ mode = "OBJECT"
    /\ addsAtZero \in BOOLEAN
    /\ kerning \in KerningTables
    /\ props \in TextProps
    /\ last = NoRun

NextText == ExecuteOnce

SpecText == InitText /\ [][NextText]_vars

\* Test generation as a function of its inputs: any grid, any scenes named
\* after a letter already there
LetterScenes == {<<c>> : c \in Letters}
InitGen ==
    /\ registered = TRUE
    /\ menu = 1
    /\ \E S \in SUBSET LetterScenes : scenes = {FontScene} \cup S
    /\ ctx = FontScene
    /\ mode = "OBJECT"
    /\ addsAtZero \in BOOLEAN
    /\ kerning = KerningTable("forward", "ctotc", TRUE)
    /\ props \in GenProps
    /\ last = NoRun

NextGen == ExecuteOnce

SpecGen == InitGen /\ [][NextGen]_vars

\* ================================================================== claims
\* every joined object the last run left: one per generator call in test
\* mode, the transition in text mode
Produced ==
    {last.made[i] : i \in DOMAIN last.made}
        \cup UNION {{last.calls[k].made[i] : i \in DOMAIN last.calls[k].made} :
                    k \in DOMAIN last.calls}

\* the unordered pairs of distinct letters, and the seven variant generators
LetterPairs == {pr \in Letters \X Letters : pr[1] < pr[2]}
VariantGenerators == {"_cc", "_coc", "_ct1c", "_ct2c", "_ct1oc", "_ct2oc", "_ctotc"}
CallsOf(f, pr) ==
    {k \in DOMAIN last.calls :
        /\ last.calls[k].fn = f
        /\ {last.calls[k].char1, last.calls[k].char2} = {pr[1], pr[2]}}
EveryVariantOnce ==
    /\ \A f \in VariantGenerators : \A pr \in LetterPairs :
           Cardinality(CallsOf(f, pr)) = 1
    /\ Len(last.calls) = Cardinality(VariantGenerators) * Cardinality(LetterPairs)

\* ---------------------------------------------------------------------- C1
\* C1: a run with a non-empty sanitised text generates the transition into
\* the scene named after the text and returns {'FINISHED'}, whether that
\* scene had to be created or was already there.  (Stated for texts of two
\* or more characters and a positive subdivision level, where nothing but
\* the scene lookup is in play.)
C1_TextRunFinishesInItsScene ==
    (last.ran /\ Len(last.basetext) >= 2 /\ last.p.subdsurf > 0)
        => /\ last.result = "FINISHED"
           /\ last.basetext \in scenes
           /\ Len(last.made) = 1
           /\ last.made[1].scene = last.basetext

C3_UpdateOnlyWithoutText ==
    /\ \A p \in LifecycleProps :
           toascii(Lower(p.basetext)) # <<>>
               => ExecuteOutcome(scenes, ctx, addsAtZero, kerning, p)
                    = ExecuteOutcome(scenes, ctx, addsAtZero, kerning,
                                     [p EXCEPT !.update_g = ~p.update_g])
    /\ (last.ran /\ last.basetext = <<>> /\ last.p.update_g /\ last.p.subdsurf > 0)
           => last.result = "FINISHED" /\ EveryVariantOnce

\* ---------------------------------------------------------------------- C4
\* C4: the Add-Mesh menu never holds more than one menu_func entry: one
\* while the operator class is registered, none once it is unregistered.
C4_OneMenuEntry ==
    /\ menu <= 1
    /\ registered => menu = 1
    /\ ~registered => menu = 0

\* ---------------------------------------------------------------------- C5
\* the variants the last run placed in the row z of scene s
RowOf(s, z) ==
    {k \in DOMAIN last.calls : last.calls[k].scene = s /\ last.calls[k].z = z}
Rows == {<<last.calls[k].scene, last.calls[k].z>> : k \in DOMAIN last.calls}

\* C5 as stated: for every vars_col in 0..26 and every gap_unit, no row of a
\* scene receives more than vars_col variants.
C5_RowHoldsAtMostVarsCol ==
    last.ran => \A r \in Rows : Cardinality(RowOf(r[1], r[2])) <= last.p.vars_col

\* C5 amended: no row of a scene receives more than vars_col variants, or
\* more than one when vars_col is 0; from one variant to the next either
\* the column offset grows by gap_unit within the row, or it resets to 0 and
\* the row offset advances by gap_unit (a new scene starts at 0, 0).
C5_RowHoldsAtMostVarsColOrOne ==
    last.ran =>
        LET most == IF last.p.vars_col = 0 THEN 1 ELSE last.p.vars_col
            gap  == last.p.gap_unit
        IN  /\ \A r \in Rows : Cardinality(RowOf(r[1], r[2])) <= most
            /\ \A k \in DOMAIN last.calls :
                   /\ last.calls[k].x < most * gap
                   /\ k > 1 =>
                        LET a == last.calls[k - 1]
                            b == last.calls[k]
                        IN  \/ b.scene = a.scene /\ b.z = a.z /\ b.x = a.x + gap
                            \/ b.scene = a.scene /\ b.z = a.z + gap /\ b.x = 0
                            \/ b.scene # a.scene /\ b.z = 0 /\ b.x = 0

C5_Witness ==
    /\ last.ran /\ last.p.vars_col = 3
    /\ \E r \in Rows : r[2] > 0 /\ Cardinality(RowOf(r[1], r[2])) = 3
    /\ \E r \in Rows : Cardinality(RowOf(r[1], r[2])) < 3

\* ---------------------------------------------------------------------- C6
\* C6: with Subdivision Level 0 no object a decorated generator produced
\* carries a 'Subsurf' modifier, and the wrapper still ran to its end: back
\* in object mode, shaded smooth, the active object deselected.
C6_LevelZeroAddsNoModifier ==
    (last.ran /\ last.p.subdsurf = 0)
        => \A obj \in Produced :
               /\ "Subsurf" \notin obj.modifiers
               /\ mode = "OBJECT"
               /\ obj.smooth
               /\ ~obj.select

\* ---------------------------------------------------------------------- C7
\* the text _trans was given: _ctrans closes it with its first character
TransText ==
    IF last.p.circular THEN last.basetext \o <<last.basetext[1]>> ELSE last.basetext
\* the kerning sequence of the adjacent pair (a, b): the listed one, else the
\* listed one of (b, a) read backwards
PairSequence(a, b) ==
    IF <<a, b>> \in DOMAIN kerning THEN kerning[<<a, b>>]
    ELSE LET rev == kerning[<<b, a>>]
         IN  [i \in 1..Len(rev) |-> rev[Len(rev) + 1 - i]]
\* all of the first pair's sequence, then every later pair's without its
\* first element
RECURSIVE ChainFrom(_, _)
ChainFrom(text, i) ==
    IF i >= Len(text) THEN <<>>
    ELSE (IF i = 1 THEN PairSequence(text[1], text[2])
          ELSE Tail(PairSequence(text[i], text[i + 1]))) \o ChainFrom(text, i + 1)
\* the template and the scale the claim gives to one step
PieceOf(step) ==
    IF step = 0 THEN <<StrCircle, last.p.circsize>>
    ELSE IF IsLower(step) THEN <<<<step>> \o StrTrans, last.p.transize>>
    ELSE <<<<LowerChar(step)>> \o StrStart, UnitScale>>
IsStartPiece(part) ==
    \E c \in Letters : part.data = <<c>> \o StrStart

\* C7: the transition of a text is one chain: all steps of the kerning
\* sequence of its first pair, then for each later adjacent pair that pair's
\* sequence without its first element, so that every character of the text
\* is duplicated exactly once; a lowercase step is a copy of '<c>_trans'
\* scaled by transize, an uppercase step a copy of '<c>_start' at the
\* template's scale, a non-string step a copy of '_circle' scaled by circsize.
C7_ChainFollowsKerning ==
    (last.ran /\ last.made # <<>>)
        => LET parts  == last.made[1].parts
               chain  == ChainFrom(TransText, 1)
               starts == SelectSeq(parts, IsStartPiece)
           IN  /\ Len(parts) = Len(chain)
               /\ \A k \in DOMAIN parts :
                      <<parts[k].data, parts[k].scale>> = PieceOf(chain[k])
               /\ Len(starts) = Len(TransText)
               /\ \A j \in DOMAIN starts :
                      starts[j].data = <<TransText[j]>> \o StrStart

C7_Witness ==
    /\ last.ran /\ last.made # <<>> /\ Len(TransText) >= 3
    /\ \E k \in DOMAIN last.made[1].parts :
           last.made[1].parts[k].data = StrCircle
    /\ \E k \in DOMAIN last.made[1].parts : \E c \in Letters :
           last.made[1].parts[k].data = <<c>> \o StrTrans
    /\ \E i \in 1..(Len(TransText) - 1) :
           <<TransText[i], TransText[i + 1]>> \notin DOMAIN kerning

\* ---------------------------------------------------------------------- C8
Listed(a, b) == <<a, b>> \in DOMAIN kerning \/ <<b, a>> \in DOMAIN kerning
AdjacentPairs == {<<TransText[i], TransText[i + 1]>> : i \in 1..(Len(TransText) - 1)}

====
